---- MODULE Spec2Model ----
(***************************************************************************)
(* Progress server of the relational-database curriculum.                  *)
(*                                                                         *)
(* Two programs of the repository are modelled:                            *)
(*   "server"   src/server.js          NORMAL / PROJECT mode, --test flag  *)
(*   "part_000" src/unnamed/part_000   the first version, one getResult    *)
(*                                                                         *)
(* The routes are modelled as registered and served.  The module-level     *)
(* statements of server.js that come before the servers are started (the   *)
(* import of line 18, the /me/email route of lines 347-354 on an app that  *)
(* is not in scope there) are left out.                                    *)
(*                                                                         *)
(* Text (file names, paths, child output) is a sequence of one-character   *)
(* strings, so that the regular expressions, parseFloat, parseInt,         *)
(* path.basename, truncate and firstUsefulLine are computed on characters. *)
(* JavaScript values that may be of several types are tagged records.      *)
(***************************************************************************)
EXTENDS Integers, Sequences, FiniteSets, TLC

----------------------------------------------------------------------------
(* Bounds of the model *)

\* at most this many entries in the test directory
MaxFiles == 2
\* at most this many 'data' events per child process
MaxChunks == 1
\* fractional digits kept by the fixed-point image of a parsed number
FracDigits == 2
\* largest total / longest passed and locked arrays handed to addStats alone
MaxTotal == 3

----------------------------------------------------------------------------
(* JavaScript values *)

Undefined == [t |-> "undefined"]
Null == [t |-> "null"]
NaN == [t |-> "NaN"]
Infinity == [t |-> "Infinity"]
Num(n) == [t |-> "num", n |-> n]
Str(s) == [t |-> "str", s |-> s]
Arr(a) == [t |-> "arr", a |-> a]

\* ToBoolean of a tagged value: undefined, null, NaN, 0 and "" are falsy
Truthy(v) ==
  CASE v.t = "undefined" -> FALSE
    [] v.t = "null" -> FALSE
    [] v.t = "NaN" -> FALSE
    [] v.t = "num" -> v.n # 0
    [] v.t = "str" -> v.s # <<>>
    [] OTHER -> TRUE

----------------------------------------------------------------------------
(* Text *)

Digits == <<"0", "1", "2", "3", "4", "5", "6", "7", "8", "9">>

IsDigit(c) == \E i \in 1..10 : Digits[i] = c

DigitVal(c) == (CHOOSE i \in 1..10 : Digits[i] = c) - 1

RECURSIVE Pow10(_)
Pow10(k) == IF k = 0 THEN 1 ELSE 10 * Pow10(k - 1)

\* value of a run of decimal digits
RECURSIVE DigitsVal(_)
DigitsVal(s) ==
  IF s = <<>> THEN 0 ELSE 10 * DigitsVal(SubSeq(s, 1, Len(s) - 1)) + DigitVal(s[Len(s)])

\* length of the longest prefix of s made of digits
RECURSIVE DigitRun(_)
DigitRun(s) ==
  IF s = <<>> \/ ~IsDigit(Head(s)) THEN 0 ELSE 1 + DigitRun(Tail(s))

Drop(s, k) == SubSeq(s, k + 1, Len(s))

Take(s, k) == SubSeq(s, 1, k)

RECURSIVE NatToStr(_)
NatToStr(n) ==
  IF n < 10 THEN <<Digits[n + 1]>> ELSE NatToStr(n \div 10) \o <<Digits[(n % 10) + 1]>>

----------------------------------------------------------------------------
(* Numbers parsed from text.  A parsed number v is kept as Dec(v * Scale),  *)
(* exact for texts with at most FracDigits fractional digits; the texts of  *)
(* the model carry no sign, exponent or leading blank.                      *)

Scale == Pow10(FracDigits)

Dec(m) == [t |-> "dec", m |-> m]

\* the JavaScript relations < and > on numbers: false when either side is NaN
NumLess(a, b) == a.t = "dec" /\ b.t = "dec" /\ a.m < b.m

NumGreater(a, b) == a.t = "dec" /\ b.t = "dec" /\ a.m > b.m

FracVal(f) ==
  LET k == IF Len(f) < FracDigits THEN Len(f) ELSE FracDigits
  IN DigitsVal(Take(f, k)) * Pow10(FracDigits - k)

\* parseFloat(s): the longest prefix digits* [ "." digits* ] holding a digit
parseFloat(s) ==
  LET n1 == DigitRun(s)
      r1 == Drop(s, n1)
      dot == r1 # <<>> /\ Head(r1) = "."
      n2 == IF dot THEN DigitRun(Tail(r1)) ELSE 0
  IN IF n1 = 0 /\ n2 = 0
       THEN NaN
       ELSE Dec(DigitsVal(Take(s, n1)) * Scale
                + (IF dot THEN FracVal(Take(Tail(r1), n2)) ELSE 0))

\* parseInt(s, 10): the leading digits, NaN when there is none
parseInt(s) ==
  LET n1 == DigitRun(s)
  IN IF n1 = 0 THEN NaN ELSE Dec(DigitsVal(Take(s, n1)) * Scale)

TestJs == <<".", "t", "e", "s", "t", ".", "j", "s">>

\* /^\d+(\.\d+)?\.test\.js$/
MatchesStepFile(f) ==
  LET n1 == DigitRun(f)
      r1 == Drop(f, n1)
  IN /\ n1 > 0
     /\ \/ r1 = TestJs
        \/ /\ r1 # <<>>
           /\ Head(r1) = "."
           /\ LET n2 == DigitRun(Tail(r1))
              IN n2 > 0 /\ Drop(Tail(r1), n2) = TestJs

\* /^\d+\.test\.js$/
MatchesWholeStepFile(f) ==
  LET n1 == DigitRun(f)
  IN n1 > 0 /\ Drop(f, n1) = TestJs

\* path.basename (posix): trailing slashes dropped, then what follows the last slash
RECURSIVE StripSlashes(_)
StripSlashes(p) ==
  IF p # <<>> /\ p[Len(p)] = "/" THEN StripSlashes(Take(p, Len(p) - 1)) ELSE p

RECURSIVE AfterLastSlash(_)
AfterLastSlash(p) ==
  IF \E i \in 1..Len(p) : p[i] = "/"
    THEN AfterLastSlash(Drop(p, CHOOSE i \in 1..Len(p) : p[i] = "/"))
    ELSE p

basename(p) == AfterLastSlash(StripSlashes(p))

----------------------------------------------------------------------------
(* Artifact discovery *)

\* Array.prototype.sort((a, b) => a.step - b.step): stable, ascending by step
RECURSIVE InsertByStep(_, _)
InsertByStep(sorted, x) ==
  IF sorted = <<>> THEN <<x>>
  ELSE IF NumLess(x.step, sorted[Len(sorted)].step)
    THEN InsertByStep(Take(sorted, Len(sorted) - 1), x) \o <<sorted[Len(sorted)]>>
    ELSE sorted \o <<x>>

RECURSIVE SortByStep(_)
SortByStep(ts) ==
  IF ts = <<>> THEN <<>>
  ELSE InsertByStep(SortByStep(Take(ts, Len(ts) - 1)), ts[Len(ts)])

\* getAllTests() of server.js on the directory dir
getAllTests(dir) ==
  IF ~dir.exists THEN <<>>
  ELSE LET fs == SelectSeq(dir.entries, MatchesStepFile)
       IN SortByStep([i \in 1..Len(fs) |-> [file |-> fs[i], step |-> parseFloat(fs[i])]])

\* the readdir / filter / map / sort of getResult in the first version
readTests(dir) ==
  LET fs == SelectSeq(dir.entries, MatchesWholeStepFile)
  IN SortByStep([i \in 1..Len(fs) |-> [file |-> fs[i], step |-> parseInt(fs[i])]])

Files(ts) == [i \in 1..Len(ts) |-> ts[i].file]

----------------------------------------------------------------------------
(* Report assembly *)

\* Math.round(count / denom * 100), halves rounded up; the quotient is computed
\* exactly, which agrees with the double arithmetic for the small counts used here
RoundPercent(count, denom) == (200 * count + denom) \div (2 * denom)

addStats_TotalDropped(payload) ==
  LET passedCount == IF payload.passed.t = "arr" THEN Len(payload.passed.a) ELSE 0
      lockedCount == IF payload.locked.t = "arr" THEN Len(payload.locked.a) ELSE 0
  IN [totalCount |-> Num(0),
      passedCount |-> Num(passedCount),
      lockedCount |-> Num(lockedCount),
      passedPercent |-> Num(RoundPercent(passedCount, 1)),
      lockedPercent |-> Num(RoundPercent(lockedCount, 1)),
      progress |-> Num(0)] @@ payload

\* addStats(payload): payload is a record of tagged values
addStats(payload) ==
  LET has(k) == k \in DOMAIN payload
      total == IF has("total") /\ payload.total.t = "num" THEN payload.total.n ELSE 0
      passedCount ==
        IF has("passed") /\ payload.passed.t = "arr" THEN Len(payload.passed.a) ELSE 0
      lockedCount ==
        IF has("locked") /\ payload.locked.t = "arr" THEN Len(payload.locked.a) ELSE 0
      denom == IF total > 0 THEN total ELSE 1
      passedPercent == RoundPercent(passedCount, denom)
      lockedPercent == RoundPercent(lockedCount, denom)
  IN [totalCount |-> Num(total),
      passedCount |-> Num(passedCount),
      lockedCount |-> Num(lockedCount),
      passedPercent |-> Num(passedPercent),
      lockedPercent |-> Num(lockedPercent),
      progress |-> Num(IF total > 0 THEN passedPercent ELSE 0)] @@ payload

TruncateMax == 6000

TruncateMark1 == <<"\n", ".", ".", ".", " ", "(", "t", "r", "u", "n", "c", "a", "t", "e", "d", " ">>

TruncateMark2 == <<" ", "c", "h", "a", "r", "s", ")">>

\* truncate(str, max)
truncate(str, max) ==
  IF str = <<>> THEN <<>>
  ELSE IF Len(str) > max
    THEN Take(str, max) \o TruncateMark1 \o NatToStr(Len(str) - max) \o TruncateMark2
    ELSE str

IsSpace(c) == c \in {" ", "\t", "\r", "\n"}

RECURSIVE TrimStart(_)
TrimStart(s) == IF s # <<>> /\ IsSpace(Head(s)) THEN TrimStart(Tail(s)) ELSE s

RECURSIVE TrimEnd(_)
TrimEnd(s) ==
  IF s # <<>> /\ IsSpace(s[Len(s)]) THEN TrimEnd(Take(s, Len(s) - 1)) ELSE s

trim(s) == TrimEnd(TrimStart(s))

\* String.prototype.split(/\r?\n/)
RECURSIVE SplitLines(_)
SplitLines(s) ==
  IF \E i \in 1..Len(s) : s[i] = "\n"
    THEN LET i == CHOOSE j \in 1..Len(s) :
                    s[j] = "\n" /\ \A k \in 1..(j - 1) : s[k] # "\n"
             cut == IF i > 1 /\ s[i - 1] = "\r" THEN i - 2 ELSE i - 1
         IN <<Take(s, cut)>> \o SplitLines(Drop(s, i))
    ELSE <<s>>

NonEmpty(s) == s # <<>>

\* firstUsefulLine(text)
firstUsefulLine(text) ==
  IF text = <<>> THEN <<>>
  ELSE LET ls == SplitLines(text)
           lines == SelectSeq([i \in 1..Len(ls) |-> trim(ls[i])], NonEmpty)
       IN IF lines # <<>> THEN lines[1] ELSE <<>>

----------------------------------------------------------------------------
(* Results of a call that may throw *)

Return(v) == [ok |-> TRUE, value |-> v, message |-> ""]

Throw(msg) == [ok |-> FALSE, value |-> Null, message |-> msg]

----------------------------------------------------------------------------
(* The program's inputs: command line, test directory, .mocharc.json *)

F1 == <<"1">> \o TestJs
F2 == <<"2">> \o TestJs
F10 == <<"1", "0">> \o TestJs
F1_5 == <<"1", ".", "5">> \o TestJs
F01 == <<"0", "1">> \o TestJs
FX == <<"x">> \o TestJs

FileNames == {F1, F2, F10, F1_5, F01, FX}

TestPath(f) == <<".", "/", "t", "e", "s", "t", "/">> \o f

\* the texts found at spec[0]
Pointers == {TestPath(F2), TestPath(F1_5), F10, TestPath(<<"x", ".", "j", "s">>)}

\* sequences without repetition of at most n members of S: a directory listing
Listings(S, n) ==
  {l \in UNION {[1..k -> S] : k \in 0..n} :
     \A i, j \in 1..Len(l) : i < j => l[i] # l[j]}

NoDirectory == [exists |-> FALSE, entries |-> <<>>]

Directories(S) == {NoDirectory} \cup {[exists |-> TRUE, entries |-> l] : l \in Listings(S, MaxFiles)}

Obj(spec) == [t |-> "obj", spec |-> spec]

\* what JSON.parse gives for the documents .mocharc.json may hold
MochaDocuments ==
  {Null, Obj(Undefined), Obj(Str(<<"x">>)), Obj(Arr(<<>>)), Obj(Arr(<<Str(<<>>)>>)),
   Obj(Arr(<<Null>>)), Obj(Arr(<<Num(5)>>))}
    \cup {Obj(Arr(<<Str(p)>>)) : p \in Pointers}

NoMochaRc == [exists |-> FALSE, json |-> FALSE, value |-> Null]

MochaRcFiles ==
  {NoMochaRc, [exists |-> TRUE, json |-> FALSE, value |-> Null]}
    \cup {[exists |-> TRUE, json |-> TRUE, value |-> d] : d \in MochaDocuments}

CHALLENGES ==
  <<[uuid |-> "a1B", order |-> 1], [uuid |-> "c7D", order |-> 2],
    [uuid |-> "e3F", order |-> 3], [uuid |-> "g9H", order |-> 4],
    [uuid |-> "i2J", order |-> 5], [uuid |-> "k6L", order |-> 6],
    [uuid |-> "m8N", order |-> 7], [uuid |-> "p4Q", order |-> 8],
    [uuid |-> "r1S", order |-> 9], [uuid |-> "t5U", order |-> 10],
    [uuid |-> "v7W", order |-> 11], [uuid |-> "x2Y", order |-> 12],
    [uuid |-> "z9A", order |-> 13], [uuid |-> "b3C", order |-> 14]>>

\* the chunks a child writes to a stream, and the messages of a launch error
Chunks == {<<"\n", " ">>, <<"a", "\n", "b">>}

ErrMessages == {<<"E", "N", "O", "E", "N", "T">>, <<>>}

ExitCodes == {Num(0), Num(1), Null}

----------------------------------------------------------------------------
(* State *)

VARIABLES
  program,       \* "server" (src/server.js) or "part_000" (the first version)
  TEST_MODE,     \* process.argv.includes("--test")
  PROJECT_MODE,  \* process.argv.includes("--project")
  REQUESTED_ID,  \* getFlagValue("--id")
  testDir,       \* the directory TEST_DIR
  mochaRc,       \* the file MOCHA_RC
  clients,       \* the GET /result requests of the run
  pc,            \* per request: "idle", "awaiting" (at the await), "done"
  frame,         \* per request: the locals getResultProjectMode keeps over the await
  proc,          \* per request: the child process spawned for it
  buf,           \* per request: stdout and stderr of runMochaInChild
  promise,       \* per request: the promise runMochaInChild returned
  emitted,       \* per request: the events its child has emitted, in order
  responses,     \* per request: the responses written to res, in order
  payload,       \* the partial result handed to addStats on its own
  stats          \* what addStats returned for it

envVars == <<program, TEST_MODE, PROJECT_MODE, REQUESTED_ID, testDir, mochaRc, clients>>

reqVars == <<pc, frame, proc, buf, promise, emitted, responses>>

statVars == <<payload, stats>>

vars == <<envVars, reqVars, statVars>>

----------------------------------------------------------------------------
(* NORMAL mode of server.js *)

MissingMessage == "Normal mode requires \".mocharc.json\" (missing)."

InvalidMessage == "Invalid \".mocharc.json\": expected { \"spec\": [\"./test/X.test.js\"] }."

JsonMessage == "SyntaxError: Unexpected token in JSON"

TypeMessage == "TypeError"

NoEntMessage == "ENOENT: no such file or directory"

\* arr[0]
First(arr) == IF arr.a = <<>> THEN Undefined ELSE arr.a[1]

Before_Inclusive(tests, currentStep) ==
  Files(SelectSeq(tests, LAMBDA t : NumLess(t.step, currentStep) \/ t.step = currentStep))

\* the loop's passed: the files of the tests with t.step < currentStep, in order
Before(tests, currentStep) ==
  Files(SelectSeq(tests, LAMBDA t : NumLess(t.step, currentStep)))

\* the loop's locked: the files of the tests with t.step > currentStep, in order
After(tests, currentStep) ==
  Files(SelectSeq(tests, LAMBDA t : NumGreater(t.step, currentStep)))

\* locked[0] || null
FirstOrNull(files) == IF files # <<>> /\ files[1] # <<>> THEN Str(files[1]) ELSE Null

\* getResultNormal() on the file rc and the directory dir
getResultNormal(rc, dir) ==
  IF ~rc.exists THEN Throw(MissingMessage)
  ELSE IF ~rc.json THEN Throw(JsonMessage)
  ELSE IF rc.value.t # "obj" THEN Throw(TypeMessage)
  ELSE
    LET spec == rc.value.spec
        currentSpec == IF spec.t = "arr" THEN First(spec) ELSE Null
    IN IF ~Truthy(currentSpec) THEN Throw(InvalidMessage)
       ELSE IF currentSpec.t # "str" THEN Throw(TypeMessage)
       ELSE
         LET currentFile == basename(currentSpec.s)
             currentStep == parseFloat(currentFile)
             tests == getAllTests(dir)
             passed == Before(tests, currentStep)
             locked == After(tests, currentStep)
         IN Return(addStats([current |-> Str(currentFile),
                             passed |-> Arr(passed),
                             locked |-> Arr(locked),
                             total |-> Num(Len(tests)),
                             next |-> FirstOrNull(locked)]))

\* getResultTestMode() on the directory dir
getResultTestMode(dir) ==
  LET tests == getAllTests(dir)
      passed == Files(tests)
      currentFile == IF Len(tests) # 0 THEN Str(tests[Len(tests)].file) ELSE Null
  IN addStats([current |-> currentFile,
               passed |-> Arr(passed),
               locked |-> Arr(<<>>),
               total |-> Num(Len(tests)),
               next |-> Null])

\* SELECTED_CHALLENGE?.order ?? null
SelectedOrder(id) ==
  IF id.t = "str" /\ \E i \in 1..Len(CHALLENGES) : CHALLENGES[i].uuid = id.s
    THEN Num(CHALLENGES[CHOOSE i \in 1..Len(CHALLENGES) : CHALLENGES[i].uuid = id.s].order)
    ELSE Null

\* withOrder(payload)
withOrder(body, id) == [order |-> SelectedOrder(id)] @@ body

\* res.json(...) and res.status(500).json(...)
Ok200(body) == [status |-> 200, body |-> body]

Fail500(error, message) == [status |-> 500, body |-> [error |-> error, message |-> message]]

----------------------------------------------------------------------------
(* The first version: getResult() of part_000 *)

\* mocha.spec[0] with no check of what mocha.spec is
SpecZero(spec) ==
  CASE spec.t = "arr" -> First(spec)
    [] spec.t = "str" -> IF spec.s = <<>> THEN Undefined ELSE Str(<<spec.s[1]>>)
    [] OTHER -> Undefined

\* Math.round((passed.length / tests.length) * 100): 0 / 0 is NaN
LegacyProgress(passedCount, total) ==
  IF total = 0 THEN NaN ELSE Num(RoundPercent(passedCount, total))

getResult(rc, dir) ==
  IF ~rc.exists THEN Throw(NoEntMessage)
  ELSE IF ~rc.json THEN Throw(JsonMessage)
  ELSE IF rc.value.t # "obj" THEN Throw(TypeMessage)
  ELSE IF rc.value.spec.t \in {"undefined", "null"} THEN Throw(TypeMessage)
  ELSE
    LET currentSpec == SpecZero(rc.value.spec)
    IN IF currentSpec.t # "str" THEN Throw(TypeMessage)
       ELSE IF ~dir.exists THEN Throw(NoEntMessage)
       ELSE
         LET currentFile == basename(currentSpec.s)
             currentStep == parseInt(currentFile)
             tests == readTests(dir)
             passed == Before(tests, currentStep)
             locked == After(tests, currentStep)
         IN Return([current |-> Str(currentFile),
                    passed |-> Arr(passed),
                    locked |-> Arr(locked),
                    total |-> Num(Len(tests)),
                    progress |-> LegacyProgress(Len(passed), Len(tests)),
                    next |-> FirstOrNull(locked)])

----------------------------------------------------------------------------
(* PROJECT mode of server.js *)

NoFrame == [tests |-> <<>>, currentFile |-> <<>>, nextFile |-> Null]

NoProc == [spawned |-> 0, file |-> <<>>, launched |-> FALSE, closed |-> FALSE,
           errored |-> FALSE, chunks |-> 0]

NoBuf == [stdout |-> <<>>, stderr |-> <<>>]

NoPromise == [state |-> "none", value |-> Null]

Pending == [state |-> "pending", value |-> Null]

Resolve_LastWins(p, value) == [state |-> "resolved", value |-> value]

\* resolve(value) of the promise p: a settled promise keeps its value
Resolve(p, value) ==
  IF p.state = "pending" THEN [state |-> "resolved", value |-> value] ELSE p

\* String(err?.message || err)
ErrText(err) == IF err.message # <<>> THEN err.message ELSE <<"E", "r", "r", "o", "r">>

\* the value the 'close' handler resolves with
OnClose(b, code) ==
  [passed |-> (code = Num(0)), exitCode |-> code, stdout |-> b.stdout, stderr |-> b.stderr]

OnError_MessageLost(b, err) ==
  [passed |-> FALSE, exitCode |-> Num(1), stdout |-> b.stdout, stderr |-> b.stderr]

\* the value the 'error' handler resolves with
OnError(b, err) ==
  [passed |-> FALSE,
   exitCode |-> Num(1),
   stdout |-> b.stdout,
   stderr |-> (IF b.stderr # <<>> THEN b.stderr \o <<"\n">> ELSE <<>>) \o ErrText(err)]

OnData_Shared(bufs, r, stream, d) ==
  [q \in DOMAIN bufs |-> IF stream = "stdout"
                           THEN [bufs[q] EXCEPT !.stdout = @ \o d]
                           ELSE [bufs[q] EXCEPT !.stderr = @ \o d]]

\* the 'data' handlers: stdout += d.toString() / stderr += d.toString(), for request r
OnData(bufs, r, stream, d) ==
  [bufs EXCEPT ![r] = IF stream = "stdout"
                        THEN [@ EXCEPT !.stdout = @ \o d]
                        ELSE [@ EXCEPT !.stderr = @ \o d]]

NoTestFiles ==
  <<"N", "o", " ", "t", "e", "s", "t", " ", "f", "i", "l", "e", "s", " ">>
    \o <<"f", "o", "u", "n", "d", " ", "i", "n", " ", "/", "t", "e", "s", "t">>

\* the report for no test file
EmptyReport ==
  addStats([current |-> Null,
            passed |-> Arr(<<>>),
            locked |-> Arr(<<>>),
            total |-> Num(0),
            next |-> Null,
            test |-> [file |-> Null, passed |-> FALSE, exitCode |-> Null,
                      stdout |-> <<>>, stderr |-> <<>>,
                      errorMessage |-> NoTestFiles]])

ForcedPassed_CurrentOnly(tests) == <<tests[1].file>>

\* passed under --test: tests.map((t) => t.file)
ForcedPassed(tests) == Files(tests)

\* the report under --test
ForcedReport(tests) ==
  addStats([current |-> Str(tests[1].file),
            passed |-> Arr(ForcedPassed(tests)),
            locked |-> Arr(<<>>),
            total |-> Num(Len(tests)),
            next |-> Null,
            test |-> [file |-> Str(tests[1].file), passed |-> TRUE, exitCode |-> Num(0),
                      stdout |-> <<>>, stderr |-> <<>>, errorMessage |-> <<>>,
                      forced |-> TRUE]])

TestFailed == <<"T", "e", "s", "t", " ", "f", "a", "i", "l", "e", "d">>

\* a || b on texts
OrText(a, b) == IF a # <<>> THEN a ELSE b

NextAfterRun_Advance(f, run) == f.nextFile

\* next: run.passed ? nextFile : currentFile
NextAfterRun(f, run) == IF run.passed THEN f.nextFile ELSE Str(f.currentFile)

\* the report built from the outcome run of the child, after the await
RunReport(f, run) ==
  LET stdout == truncate(run.stdout, TruncateMax)
      stderr == truncate(run.stderr, TruncateMax)
  IN addStats([current |-> Str(f.currentFile),
               passed |-> Arr(IF run.passed THEN <<f.currentFile>> ELSE <<>>),
               locked |-> Arr(<<>>),
               total |-> Num(Len(f.tests)),
               next |-> NextAfterRun(f, run),
               test |-> [file |-> Str(f.currentFile),
                         passed |-> run.passed,
                         exitCode |-> run.exitCode,
                         stdout |-> stdout,
                         stderr |-> stderr,
                         errorMessage |->
                           IF run.passed THEN <<>>
                           ELSE OrText(firstUsefulLine(stderr),
                                       OrText(firstUsefulLine(stdout), TestFailed))]])

----------------------------------------------------------------------------
(* Initial states *)

AllClients == {"r1", "r2"}

NoPayload == [current |-> Null]

IdleRequests ==
  /\ pc = [r \in AllClients |-> "idle"]
  /\ frame = [r \in AllClients |-> NoFrame]
  /\ proc = [r \in AllClients |-> NoProc]
  /\ buf = [r \in AllClients |-> NoBuf]
  /\ promise = [r \in AllClients |-> NoPromise]
  /\ emitted = [r \in AllClients |-> <<>>]
  /\ responses = [r \in AllClients |-> <<>>]

\* one request to either program, under every command line and file system
Init ==
  /\ program \in {"server", "part_000"}
  /\ TEST_MODE \in BOOLEAN
  /\ PROJECT_MODE \in BOOLEAN
  /\ REQUESTED_ID \in {Null, Str("c7D")}
  /\ testDir \in Directories(FileNames)
  /\ mochaRc \in MochaRcFiles
  \* part_000 exits at once under --test and knows neither --project nor --id
  /\ program = "part_000" => ~TEST_MODE /\ ~PROJECT_MODE /\ REQUESTED_ID = Null
  \* PROJECT mode never reads .mocharc.json; --id is varied on the NORMAL server
  /\ PROJECT_MODE => mochaRc = NoMochaRc /\ REQUESTED_ID = Null
  /\ clients = {"r1"}
  /\ IdleRequests
  /\ payload = NoPayload
  /\ stats = Null

\* two requests to the PROJECT server
ConcInit ==
  /\ program = "server"
  /\ TEST_MODE \in BOOLEAN
  /\ PROJECT_MODE = TRUE
  /\ REQUESTED_ID = Null
  /\ testDir \in Directories({F1, F2})
  /\ mochaRc = NoMochaRc
  /\ clients = AllClients
  /\ IdleRequests
  /\ payload = NoPayload
  /\ stats = Null

\* the partial results handed to addStats on its own
Totals == {Undefined, NaN, Infinity} \cup {Num(n) : n \in 0..MaxTotal}

Arrays == {Undefined} \cup {Arr([i \in 1..k |-> F1]) : k \in 0..MaxTotal}

Payloads ==
  {[passed |-> p, locked |-> l, total |-> t] : p \in Arrays, l \in Arrays, t \in Totals}
    \cup {[passed |-> p, locked |-> l] : p \in Arrays, l \in Arrays}

StatsInit ==
  /\ program = "server"
  /\ TEST_MODE = FALSE
  /\ PROJECT_MODE = FALSE
  /\ REQUESTED_ID = Null
  /\ testDir = NoDirectory
  /\ mochaRc = NoMochaRc
  /\ clients = {}
  /\ IdleRequests
  /\ payload \in Payloads
  /\ stats = Null

----------------------------------------------------------------------------
(* Actions *)

Respond(r, response) ==
  /\ responses' = [responses EXCEPT ![r] = Append(@, response)]
  /\ pc' = [pc EXCEPT ![r] = "done"]

\* app.get("/result") of startNormalServer
NormalRoute(r) ==
  /\ program = "server"
  /\ ~PROJECT_MODE
  /\ pc[r] = "idle"
  /\ LET result == IF TEST_MODE THEN Return(getResultTestMode(testDir))
                                ELSE getResultNormal(mochaRc, testDir)
     IN Respond(r, IF result.ok
                     THEN Ok200(withOrder(result.value, REQUESTED_ID))
                     ELSE Fail500("Failed to read progress (normal mode)", result.message))
  /\ UNCHANGED <<envVars, frame, proc, buf, promise, emitted, statVars>>

\* app.get("/result") of part_000
LegacyRoute(r) ==
  /\ program = "part_000"
  /\ pc[r] = "idle"
  /\ LET result == getResult(mochaRc, testDir)
     IN Respond(r, IF result.ok
                     THEN Ok200(result.value)
                     ELSE Fail500("Failed to read progress", result.message))
  /\ UNCHANGED <<envVars, frame, proc, buf, promise, emitted, statVars>>

\* app.get("/result") of startProjectServer, up to the response or to the await
\* on runMochaInChild, which spawns the child; launched tells whether the spawn works
ProjectRoute(r, launched) ==
  /\ program = "server"
  /\ PROJECT_MODE
  /\ pc[r] = "idle"
  /\ LET tests == getAllTests(testDir)
     IN IF Len(tests) = 0
          THEN /\ Respond(r, Ok200(withOrder(EmptyReport, REQUESTED_ID)))
               /\ UNCHANGED <<frame, proc, promise>>
          ELSE IF TEST_MODE
            THEN /\ Respond(r, Ok200(withOrder(ForcedReport(tests), REQUESTED_ID)))
                 /\ UNCHANGED <<frame, proc, promise>>
            ELSE /\ frame' = [frame EXCEPT ![r] =
                       [tests |-> tests,
                        currentFile |-> tests[1].file,
                        nextFile |-> IF Len(tests) > 1 THEN Str(tests[2].file) ELSE Null]]
                 /\ proc' = [proc EXCEPT ![r] =
                       [@ EXCEPT !.spawned = @ + 1, !.file = tests[1].file,
                                 !.launched = launched]]
                 /\ promise' = [promise EXCEPT ![r] = Pending]
                 /\ pc' = [pc EXCEPT ![r] = "awaiting"]
                 /\ UNCHANGED responses
  /\ UNCHANGED <<envVars, buf, emitted, statVars>>

\* the child of request r writes d to a stream: the 'data' handler runs
ChildData(r, stream, d) ==
  /\ proc[r].spawned > 0
  /\ proc[r].launched
  /\ ~proc[r].closed
  /\ proc[r].chunks < MaxChunks
  /\ buf' = OnData(buf, r, stream, d)
  /\ proc' = [proc EXCEPT ![r].chunks = @ + 1]
  /\ emitted' = [emitted EXCEPT ![r] = Append(@, [ev |-> "data", stream |-> stream, d |-> d])]
  /\ UNCHANGED <<envVars, pc, frame, promise, responses, statVars>>

\* the child of request r closes with code: the 'close' handler runs
ChildClose(r, code) ==
  /\ proc[r].spawned > 0
  /\ ~proc[r].closed
  /\ IF proc[r].launched THEN code \in ExitCodes ELSE code = Num(-2) /\ proc[r].errored
  /\ promise' = [promise EXCEPT ![r] = Resolve(@, OnClose(buf[r], code))]
  /\ proc' = [proc EXCEPT ![r].closed = TRUE]
  /\ emitted' = [emitted EXCEPT ![r] = Append(@, [ev |-> "close", code |-> code])]
  /\ UNCHANGED <<envVars, pc, frame, buf, responses, statVars>>

\* the child of request r emits 'error' with err: the 'error' handler runs
ChildError(r, err) ==
  /\ proc[r].spawned > 0
  /\ ~proc[r].errored
  /\ promise' = [promise EXCEPT ![r] = Resolve(@, OnError(buf[r], err))]
  /\ proc' = [proc EXCEPT ![r].errored = TRUE]
  /\ emitted' = [emitted EXCEPT ![r] = Append(@, [ev |-> "error", err |-> err])]
  /\ UNCHANGED <<envVars, pc, frame, buf, responses, statVars>>

\* the rest of getResultProjectMode and of the route, once the promise is resolved
Resume(r) ==
  /\ pc[r] = "awaiting"
  /\ promise[r].state = "resolved"
  /\ Respond(r, Ok200(withOrder(RunReport(frame[r], promise[r].value), REQUESTED_ID)))
  /\ UNCHANGED <<envVars, frame, proc, buf, promise, emitted, statVars>>

\* addStats applied to a partial result on its own
ApplyAddStats ==
  /\ stats = Null
  /\ stats' = addStats(payload)
  /\ UNCHANGED <<envVars, reqVars, payload>>

Next ==
  \/ \E r \in clients : NormalRoute(r)
  \/ \E r \in clients : LegacyRoute(r)
  \/ \E r \in clients, launched \in BOOLEAN : ProjectRoute(r, launched)
  \/ \E r \in clients, stream \in {"stdout", "stderr"}, d \in Chunks : ChildData(r, stream, d)
  \/ \E r \in clients, code \in ExitCodes \cup {Num(-2)} : ChildClose(r, code)
  \/ \E r \in clients, m \in ErrMessages : ChildError(r, [message |-> m])
  \/ \E r \in clients : Resume(r)

\* the steps of the PROJECT server, with the events Node emits for a child that
\* the server neither kills nor messages: 'error' comes from a failed launch only
ProjectNext ==
  \/ \E r \in clients, launched \in BOOLEAN : ProjectRoute(r, launched)
  \/ \E r \in clients, stream \in {"stdout", "stderr"}, d \in Chunks : ChildData(r, stream, d)
  \/ \E r \in clients, code \in ExitCodes \cup {Num(-2)} : ChildClose(r, code)
  \/ \E r \in clients, m \in ErrMessages : ~proc[r].launched /\ ChildError(r, [message |-> m])
  \/ \E r \in clients : Resume(r)

Spec == Init /\ [][Next]_vars

ConcSpec == ConcInit /\ [][ProjectNext]_vars

StatsSpec == StatsInit /\ [][ApplyAddStats]_vars

\* the event loop runs a ready continuation; nothing makes a child end
FairSpec == Spec /\ \A r \in AllClients : WF_vars(Resume(r))

----------------------------------------------------------------------------
(* Vocabulary of the properties *)

Range(q) == {q[i] : i \in 1..Len(q)}

IsSuffix(x, y) == Len(x) <= Len(y) /\ SubSeq(y, Len(y) - Len(x) + 1, Len(y)) = x

Answered(r) == responses[r] # <<>>

Reported(r) == Answered(r) /\ responses[r][1].status = 200

Body(r) == responses[r][1].body

DeclaredPosition == ~PROJECT_MODE

ExecutedPosition == program = "server" /\ PROJECT_MODE

Override == program = "server" /\ TEST_MODE

\* the discovered artifacts: the directory's entries of the step-file form, with
\* the step their name parses to
Discovered ==
  IF ~testDir.exists THEN {}
  ELSE IF program = "server"
    THEN {[file |-> f, step |-> parseFloat(f)] :
            f \in {g \in Range(testDir.entries) : MatchesStepFile(g)}}
    ELSE {[file |-> f, step |-> parseInt(f)] :
            f \in {g \in Range(testDir.entries) : MatchesWholeStepFile(g)}}

StepOf(f) == (CHOOSE a \in Discovered : a.file = f).step

\* q lists members of Discovered without repetition, ascending by step
Ascending(q) ==
  /\ \A i \in 1..Len(q) : \E a \in Discovered : a.file = q[i]
  /\ \A i, j \in 1..Len(q) : i < j => q[i] # q[j] /\ StepOf(q[i]).m <= StepOf(q[j]).m

Lowest(A) == {a \in A : \A b \in A : a.step.m <= b.step.m}

\* a pointer is usable when spec is an array whose first member is a non-empty text
UsablePointer ==
  /\ mochaRc.exists
  /\ mochaRc.json
  /\ mochaRc.value.t = "obj"
  /\ mochaRc.value.spec.t = "arr"
  /\ First(mochaRc.value.spec).t = "str"
  /\ First(mochaRc.value.spec).s # <<>>

ConfigurationMissing == ~mochaRc.exists

ConfigurationInvalid == mochaRc.exists /\ ~UsablePointer

PointerFile == basename(First(mochaRc.value.spec).s)

PointerStep == IF program = "server" THEN parseFloat(PointerFile) ELSE parseInt(PointerFile)

\* an artifact's step is strictly below / above the pointer's (never so for NaN)
Below(a) == PointerStep.t = "dec" /\ a.step.m < PointerStep.m

Above(a) == PointerStep.t = "dec" /\ a.step.m > PointerStep.m

\* the events of a child up to its first 'close' or 'error', which settles the promise
Settling(ev) == {i \in 1..Len(ev) : ev[i].ev \in {"close", "error"}}

FirstSettling(ev) == CHOOSE i \in Settling(ev) : \A j \in Settling(ev) : i <= j

RECURSIVE Written(_, _, _)
Written(ev, k, stream) ==
  IF k = 0 THEN <<>>
  ELSE Written(ev, k - 1, stream)
         \o (IF ev[k].ev = "data" /\ ev[k].stream = stream THEN ev[k].d ELSE <<>>)

----------------------------------------------------------------------------
(* C1 *)

\* C1: every Progress Report returned by /result of server.js, in NORMAL and in
\* PROJECT mode, with and without --test, has passedCount + lockedCount <= totalCount.
C1_CountsWithinTotal ==
  \A r \in AllClients :
    (program = "server" /\ Reported(r)) =>
      Body(r).passedCount.n + Body(r).lockedCount.n <= Body(r).totalCount.n

C1_Witness ==
  /\ program = "server"
  /\ Reported("r1")
  /\ Body("r1").passedCount.n >= 1
  /\ Body("r1").lockedCount.n >= 1
  /\ Body("r1").passedCount.n + Body("r1").lockedCount.n = Body("r1").totalCount.n

----------------------------------------------------------------------------
(* C2 *)

\* C2: in declared-position mode without --test, for a non-empty discovered set and
\* a usable pointer, the request is answered with a report in which passed is exactly
\* the artifacts of step below the pointer's step and locked exactly those of step
\* above it, both ascending by step; current is the pointer's file and is in neither;
\* next is a lowest-step member of locked, or null when locked is empty.
C2_DeclaredPartition ==
  \A r \in AllClients :
    (DeclaredPosition /\ ~Override /\ Discovered # {} /\ UsablePointer /\ Answered(r)) =>
      /\ Reported(r)
      /\ Body(r).current = Str(PointerFile)
      /\ Range(Body(r).passed.a) = {a.file : a \in {b \in Discovered : Below(b)}}
      /\ Range(Body(r).locked.a) = {a.file : a \in {b \in Discovered : Above(b)}}
      /\ Ascending(Body(r).passed.a)
      /\ Ascending(Body(r).locked.a)
      /\ PointerFile \notin Range(Body(r).passed.a) \cup Range(Body(r).locked.a)
      /\ IF Body(r).locked.a = <<>>
           THEN Body(r).next = Null
           ELSE /\ Body(r).next.t = "str"
                /\ Body(r).next.s \in
                     {a.file : a \in Lowest({b \in Discovered : b.file \in Range(Body(r).locked.a)})}

C2_Witness ==
  /\ DeclaredPosition /\ ~Override /\ UsablePointer
  /\ Reported("r1")
  /\ \E a \in Discovered : a.file = PointerFile
  /\ Body("r1").passed.a # <<>>

----------------------------------------------------------------------------
(* C3 *)

\* C3: in executed-position mode without --test: with no artifact the report is
\* current = null, passed = [], locked = [], total = 0, next = null and no child is
\* spawned; otherwise the child is spawned exactly once, on the lowest-step artifact,
\* which is current; locked is empty; passed = [current] and next is the second-lowest
\* artifact (null if there is one only) when the run succeeded; passed = [] and
\* next = current when it failed.
C3_ExecutedPosition ==
  \A r \in AllClients :
    (ExecutedPosition /\ ~Override) =>
      IF Discovered = {}
        THEN /\ proc[r].spawned = 0
             /\ Answered(r) =>
                  /\ Reported(r)
                  /\ Body(r).current = Null
                  /\ Body(r).passed = Arr(<<>>)
                  /\ Body(r).locked = Arr(<<>>)
                  /\ Body(r).total = Num(0)
                  /\ Body(r).next = Null
        ELSE /\ proc[r].spawned = (IF pc[r] = "idle" THEN 0 ELSE 1)
             /\ pc[r] # "idle" => proc[r].file \in {a.file : a \in Lowest(Discovered)}
             /\ Answered(r) =>
                  LET current == Body(r).current.s
                      rest == {a \in Discovered : a.file # current}
                  IN /\ Reported(r)
                     /\ current = proc[r].file
                     /\ Body(r).locked = Arr(<<>>)
                     /\ Body(r).total = Num(Cardinality(Discovered))
                     /\ IF promise[r].value.passed
                          THEN /\ Body(r).passed = Arr(<<current>>)
                               /\ IF rest = {} THEN Body(r).next = Null
                                  ELSE Body(r).next \in {Str(a.file) : a \in Lowest(rest)}
                          ELSE /\ Body(r).passed = Arr(<<>>)
                               /\ Body(r).next = Str(current)

C3_Witness ==
  /\ ExecutedPosition /\ ~Override
  /\ Cardinality(Discovered) = 2
  /\ Reported("r1")
  /\ ~promise["r1"].value.passed
  /\ Body("r1").next = Body("r1").current

----------------------------------------------------------------------------
(* C4 *)

\* C4: under --test, in NORMAL and in PROJECT mode, no child process is ever spawned
\* and every answer is a report whose passed is the whole discovered set ascending by
\* step, whose locked is empty and whose next is null.
C4_OverrideAllPassed ==
  \A r \in AllClients :
    Override =>
      /\ proc[r].spawned = 0
      /\ Answered(r) =>
           /\ Reported(r)
           /\ Range(Body(r).passed.a) = {a.file : a \in Discovered}
           /\ Ascending(Body(r).passed.a)
           /\ Body(r).locked = Arr(<<>>)
           /\ Body(r).next = Null

C4_Witness ==
  /\ Override /\ ExecutedPosition
  /\ Reported("r1")
  /\ Len(Body("r1").passed.a) = 2

----------------------------------------------------------------------------
(* C5 *)

InPercentRange(v) == v.t = "num" /\ v.n >= 0 /\ v.n <= 100

\* C5: for every partial result addStats accepts, a missing or non-finite total
\* included, passedPercent and lockedPercent are integers in [0,100] equal to
\* round(count / max(total,1) * 100), and all of passedPercent, lockedPercent and
\* progress are 0 when the total is 0.
C5_PercentagesBounded ==
  stats # Null =>
    /\ InPercentRange(stats.passedPercent)
    /\ InPercentRange(stats.lockedPercent)
    /\ LET total == stats.totalCount.n
           denom == IF total > 1 THEN total ELSE 1
       IN /\ stats.passedPercent.n = (200 * stats.passedCount.n + denom) \div (2 * denom)
          /\ stats.lockedPercent.n = (200 * stats.lockedCount.n + denom) \div (2 * denom)
          /\ total = 0 =>
               /\ stats.passedPercent.n = 0
               /\ stats.lockedPercent.n = 0
               /\ stats.progress.n = 0

----------------------------------------------------------------------------
(* C6 *)

\* C6: in declared-position mode a /result request is answered 500 with a body
\* {error, message}, and with no report, whenever .mocharc.json is missing or holds
\* no usable pointer.  (Stated for the runs without --test, where the pointer is read.)
C6_BadConfigurationFails ==
  \A r \in AllClients :
    (DeclaredPosition /\ ~Override /\ (ConfigurationMissing \/ ConfigurationInvalid)
       /\ Answered(r)) =>
      /\ responses[r][1].status = 500
      /\ DOMAIN Body(r) = {"error", "message"}

----------------------------------------------------------------------------
(* C7 *)

\* the 'error' event of a child whose launch failed
LaunchError(r) == emitted[r][FirstSettling(emitted[r])]

\* C7: when the child cannot be launched, the promise of runMochaInChild is resolved
\* with passed = false, a non-zero exit code and the launch error's text at the end of
\* stderr, and the request is answered with a 200 report of the failed run.
C7_LaunchFailureIsReported ==
  \A r \in AllClients :
    (proc[r].spawned > 0 /\ ~proc[r].launched /\ proc[r].errored) =>
      /\ LaunchError(r).ev = "error"
      /\ promise[r].state = "resolved"
      /\ promise[r].value.passed = FALSE
      /\ promise[r].value.exitCode.t = "num"
      /\ promise[r].value.exitCode.n # 0
      /\ IsSuffix(ErrText(LaunchError(r).err), promise[r].value.stderr)
      /\ Answered(r) =>
           /\ Reported(r)
           /\ Body(r).test.passed = FALSE
           /\ Body(r).passed = Arr(<<>>)
           /\ IsSuffix(ErrText(LaunchError(r).err), Body(r).test.stderr)

C7_Witness ==
  /\ proc["r1"].spawned > 0
  /\ ~proc["r1"].launched
  /\ Reported("r1")
  /\ Body("r1").test.exitCode = Num(1)

----------------------------------------------------------------------------
(* C8 *)

\* C8: every GET /result request is eventually answered, exactly once.
C8_EveryRequestAnswered ==
  \A r \in AllClients : (pc[r] # "idle") ~> (Len(responses[r]) = 1)

----------------------------------------------------------------------------
(* C9 *)

\* the outcome the events ev of one child determine
OutcomeOf(ev) ==
  LET k == FirstSettling(ev)
      out == Written(ev, k, "stdout")
      err == Written(ev, k, "stderr")
  IN IF ev[k].ev = "close"
       THEN [passed |-> ev[k].code = Num(0), exitCode |-> ev[k].code,
             stdout |-> out, stderr |-> err]
       ELSE [passed |-> FALSE, exitCode |-> Num(1), stdout |-> out,
             stderr |-> (IF err = <<>> THEN <<>> ELSE err \o <<"\n">>)
                          \o ErrText(ev[k].err)]

\* C9: of two requests in flight together, each spawns a child of its own for the
\* current artifact, and the report of each (passed, next, test.passed,
\* test.exitCode, stdout, stderr) is the one the events of its own child determine.
C9_OwnChildOnly ==
  \A r \in clients :
    /\ pc[r] # "idle" /\ ~TEST_MODE /\ Discovered # {} =>
         proc[r].spawned = 1 /\ proc[r].file = frame[r].currentFile
    /\ (Answered(r) /\ proc[r].spawned > 0) =>
         LET own == OutcomeOf(emitted[r])
         IN /\ Reported(r)
            /\ Body(r).test.passed = own.passed
            /\ Body(r).test.exitCode = own.exitCode
            /\ Body(r).test.stdout = truncate(own.stdout, TruncateMax)
            /\ Body(r).test.stderr = truncate(own.stderr, TruncateMax)
            /\ Body(r).passed = Arr(IF own.passed THEN <<frame[r].currentFile>> ELSE <<>>)
            /\ Body(r).next = (IF own.passed THEN frame[r].nextFile
                                             ELSE Str(frame[r].currentFile))

C9_Witness ==
  /\ clients = AllClients
  /\ Reported("r1") /\ Reported("r2")
  /\ proc["r1"].spawned = 1 /\ proc["r2"].spawned = 1
  /\ Body("r1").test.passed /\ ~Body("r2").test.passed
  /\ Body("r1").test.stdout # <<>> /\ Body("r2").test.stdout = <<>>
  /\ Body("r2").test.stderr # <<>> /\ Body("r1").test.stderr = <<>>

----------------------------------------------------------------------------
(* C10 *)

\* C10: the outcome is success exactly when the first of the child's 'close' and
\* 'error' events is a 'close' with status 0 (a non-zero or null status, and an
\* 'error', give passed = false); that first event fixes the exit code too, and
\* later events change neither the outcome nor the report made from it.
C10_FirstEventFixesOutcome ==
  \A r \in AllClients :
    /\ promise[r].state = "resolved" <=> Settling(emitted[r]) # {}
    /\ promise[r].state = "resolved" =>
         LET first == emitted[r][FirstSettling(emitted[r])]
         IN /\ promise[r].value.passed <=> (first.ev = "close" /\ first.code = Num(0))
            /\ promise[r].value.exitCode = (IF first.ev = "close" THEN first.code ELSE Num(1))
            /\ Answered(r) =>
                 /\ Body(r).test.passed = promise[r].value.passed
                 /\ Body(r).test.exitCode = promise[r].value.exitCode

C10_Witness ==
  /\ Reported("r1")
  /\ Cardinality(Settling(emitted["r1"])) = 2
  /\ emitted["r1"][FirstSettling(emitted["r1"])].ev = "close"
  /\ emitted["r1"][FirstSettling(emitted["r1"])].code = Null
  /\ ~Body("r1").test.passed

====
